---------------------------- MODULE Spec2Model ----------------------------
(***************************************************************************)
(* Emirates ID extractor: the extraction request of                        *)
(* emirates_id_extractor.py (upload, text detection, language-model query, *)
(* JSON parse with regex fallback, delete) and the Streamlit session of    *)
(* app.py.                                                                 *)
(*                                                                         *)
(* Text is a sequence of pieces.  A piece is a run of characters that the  *)
(* code's patterns and the JSON grammar never split, except for the letter *)
(* prefix given by LetterPrefix.  A Python str is the sequence of its      *)
(* pieces: "" is << >> and "Not Found" is <<"Not Found">>.  No piece is a  *)
(* concatenation of other pieces, so two strings are equal exactly when    *)
(* their sequences are.                                                    *)
(***************************************************************************)
EXTENDS Integers, Sequences, FiniteSets, TLC

VARIABLES
    pc,             \* per request: position in extract_text_from_image
    image,          \* per request: the local file, its base name and bytes
    bucket,         \* the S3 bucket: key -> bytes of the object stored there
    calls,          \* per request: number of calls made to each collaborator
    blocks,         \* per request: response['Blocks'] of detect_document_text
    extracted_text, \* per request: the text handed to process_and_query
    result,         \* per request: the completion returned by chain.run
    extracted_info, \* per request: what process_and_query returned
    raised_in,      \* per request: the collaborator call that raised, if one did
    outcome,        \* per request: what extract_text_from_image returned or raised
    services,       \* the collaborators: what they may reply, whether they may fail
    uploaded_file,  \* the file in st.file_uploader, NoFile when there is none
    session_state,  \* st.session_state
    page,           \* what the last script run put on the page
    sent            \* the bytes the last script run handed to the extractor

pipeline_vars ==
    <<pc, image, bucket, calls, blocks, extracted_text, result, extracted_info,
      raised_in, outcome, services>>
ui_vars == <<uploaded_file, session_state, page, sent>>
vars == <<pipeline_vars, ui_vars>>

-----------------------------------------------------------------------------
(* Characters *)

QUOTE == "\""
SP == " "

\* Pieces made only of characters of [A-Za-z\s].
LetterSpacePieces ==
    {SP, "JANE DOE", "Not Found", "not found", "NOT FOUND", "Dubai", "DUBAI",
     "Abu Dhabi", "ID Number", "Passport", "name", "sponsor", "address",
     "null", "Name", "Nationality", "Profession", "Z", "expiry"}

\* Pieces made only of whitespace.
SpacePieces == {SP}

\* Pieces made only of characters of [0-9-].
DigitDashPieces == {"784-1990", "42"}

\* Pieces made only of characters of [:/\s].
SeparatorPieces == {":", "/", SP}

\* The longest prefix of a piece made of characters of [A-Za-z\s].
LetterPrefix(p) ==
    CASE p \in LetterSpacePieces -> p
      [] p = "Name:" -> "Name"
      [] p = "Nationality:" -> "Nationality"
      [] p = "Profession:" -> "Profession"
      [] p = "Z1234567" -> "Z"
      [] p = "expiry_date" -> "expiry"
      [] OTHER -> ""

\* A Python str literal of one piece.
Py(p) == <<p>>

RECURSIVE LStrip(_)
LStrip(s) == IF s # << >> /\ Head(s) \in SpacePieces THEN LStrip(Tail(s)) ELSE s

RECURSIVE RStrip(_)
RStrip(s) ==
    IF s # << >> /\ s[Len(s)] \in SpacePieces
    THEN RStrip(SubSeq(s, 1, Len(s) - 1))
    ELSE s

\* str.strip()
Strip(s) == RStrip(LStrip(s))

-----------------------------------------------------------------------------
(* Python values.  A value carries its type; a dict is a function from     *)
(* keys (strs) to values.                                                  *)

Str(s) == [type |-> "str", val |-> s]
Num(n) == [type |-> "num", val |-> <<n>>]
Null == [type |-> "null", val |-> << >>]
List(xs) == [type |-> "list", val |-> xs]
Dict(d) == [type |-> "dict", val |-> d]

EmptyDict == << >>

\* d[k] = v
Put(d, k, v) == (k :> v) @@ d

\* The first index of the set, 0 when the set is empty (no match).
First(S) == IF S = {} THEN 0 ELSE CHOOSE i \in S : \A j \in S : i <= j

-----------------------------------------------------------------------------
(* extract_using_regex *)

\* The last index of the run of pieces of class C that starts at j (j - 1
\* when the run is empty).
RECURSIVE RunEnd(_, _, _)
RunEnd(t, j, C) == IF j <= Len(t) /\ t[j] \in C THEN RunEnd(t, j + 1, C) ELSE j - 1

\* What ([A-Za-z\s]+) can take from index j on, together with a \s* before
\* it: the run of letter and space pieces and the letter prefix of the piece
\* that ends the run.
LetterCapture(t, j) ==
    LET e == RunEnd(t, j, LetterSpacePieces)
        rest == IF e + 1 <= Len(t) THEN LetterPrefix(t[e + 1]) ELSE ""
    IN  SubSeq(t, j, e) \o (IF rest = "" THEN << >> ELSE <<rest>>)

\* re.search(label + r'\s*([A-Za-z\s]+)', text): the index of the label of
\* the leftmost match, 0 when there is none.
LabelSearch(t, label) ==
    First({i \in 1..Len(t) : t[i] = label /\ LetterCapture(t, i + 1) # << >>})

\* match.group(1).strip()
LabelValue(t, i) == Strip(LetterCapture(t, i + 1))

\* re.search(r'ID Number[:/\s]+([0-9-]+)', text)
IdSearch(t) ==
    First({i \in 1..Len(t) :
            /\ t[i] = "ID Number"
            /\ LET s == RunEnd(t, i + 1, SeparatorPieces)
               IN  s >= i + 1 /\ RunEnd(t, s + 1, DigitDashPieces) >= s + 1})

IdValue(t, i) ==
    LET s == RunEnd(t, i + 1, SeparatorPieces)
    IN  Strip(SubSeq(t, s + 1, RunEnd(t, s + 1, DigitDashPieces)))

\* re.search(r'Z\d{7}', text)
PassportPieces == {"Z1234567"}
PassportSearch(t) == First({i \in 1..Len(t) : t[i] \in PassportPieces})

\* re.search(r'(Dubai|Abu Dhabi|Sharjah|Ajman|Umm Al Quwain|Ras Al Khaimah|Fujairah)',
\*           text, re.IGNORECASE)
EmiratePieces ==
    {"Dubai", "DUBAI", "Abu Dhabi", "Sharjah", "Ajman", "Umm Al Quwain",
     "Ras Al Khaimah", "Fujairah"}
PlaceSearch(t) == First({i \in 1..Len(t) : t[i] \in EmiratePieces})

extract_using_regex(text) ==
    LET name_match == LabelSearch(text, "Name:")
        id_match == IdSearch(text)
        nationality_match == LabelSearch(text, "Nationality:")
        passport_match == PassportSearch(text)
        profession_match == LabelSearch(text, "Profession:")
        place_match == PlaceSearch(text)
        d0 == EmptyDict
        d1 == IF name_match # 0
              THEN Put(d0, Py("name"), Str(LabelValue(text, name_match)))
              ELSE d0
        d2 == IF id_match # 0
              THEN Put(d1, Py("id_number"), Str(IdValue(text, id_match)))
              ELSE d1
        d3 == IF nationality_match # 0
              THEN Put(d2, Py("nationality"), Str(LabelValue(text, nationality_match)))
              ELSE d2
        d4 == IF passport_match # 0
              THEN Put(d3, Py("passport_no"), Str(<<text[passport_match]>>))
              ELSE d3
        d5 == IF profession_match # 0
              THEN Put(d4, Py("profession"), Str(LabelValue(text, profession_match)))
              ELSE d4
        d6 == IF place_match # 0
              THEN Put(d5, Py("place_of_issue"), Str(<<text[place_match]>>))
              ELSE d5
    IN  d6

-----------------------------------------------------------------------------
(* json.loads *)

\* Pieces that are JSON number literals.
NumberPieces == {"42"}

ParseError == [ok |-> FALSE, val |-> Null, pos |-> 0]
Parsed(v, p) == [ok |-> TRUE, val |-> v, pos |-> p]

\* The first index from i on that holds no whitespace.
SkipSpace(t, i) == RunEnd(t, i, SpacePieces) + 1

\* A string literal opening at t[i]: up to the next quote.
ParseString(t, i) ==
    LET close == First({j \in (i + 1)..Len(t) : t[j] = QUOTE})
    IN  IF close = 0 THEN ParseError
        ELSE Parsed(Str(SubSeq(t, i + 1, close - 1)), close + 1)

RECURSIVE ParseValue(_, _)
RECURSIVE ParseElements(_, _, _)
RECURSIVE ParseMembers(_, _, _)

ParseValue(t, i) ==
    IF i > Len(t) THEN ParseError
    ELSE CASE t[i] = "null" -> Parsed(Null, i + 1)
           [] t[i] \in NumberPieces -> Parsed(Num(t[i]), i + 1)
           [] t[i] = QUOTE -> ParseString(t, i)
           [] t[i] = "[" ->
                LET j == SkipSpace(t, i + 1)
                IN  IF j <= Len(t) /\ t[j] = "]" THEN Parsed(List(<< >>), j + 1)
                    ELSE ParseElements(t, j, << >>)
           [] t[i] = "{" ->
                LET j == SkipSpace(t, i + 1)
                IN  IF j <= Len(t) /\ t[j] = "}" THEN Parsed(Dict(EmptyDict), j + 1)
                    ELSE ParseMembers(t, j, EmptyDict)
           [] OTHER -> ParseError

\* value ("," value)* "]"
ParseElements(t, i, acc) ==
    LET v == ParseValue(t, i)
        j == SkipSpace(t, v.pos)
    IN  IF ~v.ok \/ j > Len(t) THEN ParseError
        ELSE IF t[j] = "]" THEN Parsed(List(Append(acc, v.val)), j + 1)
        ELSE IF t[j] = "," THEN ParseElements(t, SkipSpace(t, j + 1), Append(acc, v.val))
        ELSE ParseError

\* string ":" value ("," string ":" value)* "}"; a repeated key keeps its
\* last value.
ParseMembers(t, i, acc) ==
    IF i > Len(t) \/ t[i] # QUOTE THEN ParseError
    ELSE LET k == ParseString(t, i)
             c == SkipSpace(t, k.pos)
         IN  IF ~k.ok \/ c > Len(t) \/ t[c] # ":" THEN ParseError
             ELSE LET v == ParseValue(t, SkipSpace(t, c + 1))
                      j == SkipSpace(t, v.pos)
                      d == Put(acc, k.val.val, v.val)
                  IN  IF ~v.ok \/ j > Len(t) THEN ParseError
                      ELSE IF t[j] = "}" THEN Parsed(Dict(d), j + 1)
                      ELSE IF t[j] = "," THEN ParseMembers(t, SkipSpace(t, j + 1), d)
                      ELSE ParseError

\* json.loads(s): ok is FALSE for json.JSONDecodeError.
json_loads(s) ==
    LET v == ParseValue(s, SkipSpace(s, 1))
    IN  IF v.ok /\ SkipSpace(s, v.pos) = Len(s) + 1
        THEN [ok |-> TRUE, val |-> v.val]
        ELSE [ok |-> FALSE, val |-> Null]

\* json.dumps: the text of a value; the members of a dict come in the order
\* of keys.
RECURSIVE SerializeValue(_)
RECURSIVE SerializeElements(_, _)
RECURSIVE SerializeMembers(_, _, _)
SerializeValue(v) ==
    CASE v.type = "null" -> <<"null">>
      [] v.type = "num" -> v.val
      [] v.type = "str" -> <<QUOTE>> \o v.val \o <<QUOTE>>
      [] v.type = "list" -> <<"[">> \o SerializeElements(v.val, TRUE) \o <<"]">>
SerializeElements(xs, first) ==
    IF xs = << >> THEN << >>
    ELSE (IF first THEN << >> ELSE <<",", SP>>)
         \o SerializeValue(Head(xs)) \o SerializeElements(Tail(xs), FALSE)
SerializeMembers(d, keys, first) ==
    IF keys = << >> THEN << >>
    ELSE LET k == Head(keys)
         IN  IF k \in DOMAIN d
             THEN (IF first THEN << >> ELSE <<",", SP>>)
                  \o <<QUOTE>> \o k \o <<QUOTE, ":", SP>> \o SerializeValue(d[k])
                  \o SerializeMembers(d, Tail(keys), FALSE)
             ELSE SerializeMembers(d, Tail(keys), first)
SerializeDict(d, keys) == <<"{">> \o SerializeMembers(d, keys, TRUE) \o <<"}">>

-----------------------------------------------------------------------------
(* What a call returns or raises.  The message of an exception is the      *)
(* sequence of its parts: f"Error in LLM processing: {str(e)}" is          *)
(* <<"Error in LLM processing">> \o str(e).                                *)

Return(v) == [kind |-> "return", value |-> v, msg |-> << >>]
Raise(m) == [kind |-> "raise", value |-> EmptyDict, msg |-> m]
Pending == [kind |-> "none", value |-> EmptyDict, msg |-> << >>]

\* str(e) of the error a collaborator call raises.
CollaboratorError(call) == <<"error raised by", call>>

-----------------------------------------------------------------------------
(* process_and_query *)

\* {k: v for k, v in extracted_info.items() if v != "Not Found"}
DropNotFound(d) ==
    LET keep == {k \in DOMAIN d : ~(d[k].type = "str" /\ d[k].val = Py("Not Found"))}
    IN  [k \in keep |-> d[k]]

\* Mutant: json.JSONDecodeError is not caught by the inner try.
ParseCompletionNoFallback(completion) ==
    LET parsed == json_loads(completion)
    IN  IF parsed.ok
        THEN IF parsed.val.type = "dict"
             THEN Return(DropNotFound(parsed.val.val))
             ELSE Raise(<<"object has no attribute 'items'">>)
        ELSE Raise(<<"Expecting value">>)

\* The inner try of process_and_query: json.loads, the "Not Found" filter,
\* the regex fallback on json.JSONDecodeError.  A parsed value that is no
\* dict has no items(): the AttributeError leaves the inner try.
ParseCompletion(completion) ==
    LET parsed == json_loads(completion)
    IN  IF parsed.ok
        THEN IF parsed.val.type = "dict"
             THEN Return(DropNotFound(parsed.val.val))
             ELSE Raise(<<"object has no attribute 'items'">>)
        ELSE Return(DropNotFound(extract_using_regex(completion)))

\* The outer except of process_and_query.
WrapLLM(o) ==
    IF o.kind = "raise" THEN Raise(<<"Error in LLM processing">> \o o.msg) ELSE o

\* The calls process_and_query makes to its collaborators, in order.
QueryCalls == <<"split", "embed", "search", "llm">>

\* process_and_query when its collaborator call `fault` raises ("none": no
\* call raises, and chain.run returns completion).
process_and_query(fault, completion) ==
    WrapLLM(IF fault # "none"
            THEN Raise(CollaboratorError(fault))
            ELSE ParseCompletion(completion))

-----------------------------------------------------------------------------
(* The collaborators.  Textract returns any sequence of blocks and the     *)
(* model any completion (services.replies = "any"), or each is a function  *)
(* of its input (services.replies = "fixed": the same document reads the   *)
(* same, and the model, at temperature 0, answers the same).               *)

MaxLines == 2      \* blocks in a Textract response
MaxFields == 1     \* members of a JSON object the model returns
MaxTextLen == 3    \* pieces of a completion that is plain text

\* A word in Arabic script (U+0627 U+0633 U+0645).
ArabicPieces == {"<U+0627 U+0633 U+0645>"}
ArabicWord == CHOOSE p \in ArabicPieces : TRUE

Block(text, type) == [Text |-> text, BlockType |-> type]

LatinLine == <<"Name:", SP, "JANE DOE">>
ArabicLine == <<ArabicWord>>
MixedLine == <<"Name", SP, ArabicWord, ":", SP, "JANE DOE">>
DigitLine == <<"784-1990">>
IdLine == <<"ID Number", ":", SP, "784-1990">>

BlockPool ==
    {Block(l, "LINE") : l \in {LatinLine, ArabicLine, MixedLine, DigitLine}}
        \cup {Block(<<"JANE DOE">>, "WORD")}

BlockSeqs == UNION {[1..n -> BlockPool] : n \in 0..MaxLines}

\* The bytes of the images, and what Textract reads on each.
Contents == {"card A", "card B", "blank page"}
CardBlocks(bytes) ==
    CASE bytes = "card A" -> <<Block(LatinLine, "LINE"), Block(<<"JANE DOE">>, "WORD")>>
      [] bytes = "card B" -> <<Block(ArabicLine, "LINE"), Block(IdLine, "LINE")>>
      [] OTHER -> << >>

\* The keys and the values of the JSON objects the model returns.
KeyPool == {Py("name"), Py("sponsor"), Py("address")}
ValuePool ==
    {Str(Py("JANE DOE")), Str(Py("Not Found")), Str(Py("not found")),
     Str(<<SP, "NOT FOUND", SP>>), Str(<< >>), Null}
KeyOrder ==
    <<Py("name"), Py("id_number"), Py("nationality"), Py("passport_no"),
      Py("profession"), Py("sponsor"), Py("place_of_issue"), Py("issue_date"),
      Py("expiry_date"), Py("address")>>

JsonObjects ==
    UNION {[ks -> ValuePool] : ks \in {s \in SUBSET KeyPool : Cardinality(s) <= MaxFields}}
\* The JSON values that are no object.
JsonOthers ==
    <<Null, Num("42"), Str(Py("JANE DOE")), List(<< >>), List(<<Str(Py("JANE DOE"))>>)>>

JsonTexts ==
    {SerializeDict(d, KeyOrder) : d \in JsonObjects}
        \cup {SerializeValue(JsonOthers[i]) : i \in DOMAIN JsonOthers}

\* A JSON text cut short of its last piece.
CutTexts == {SubSeq(t, 1, Len(t) - 1) : t \in JsonTexts}

\* Plain text: every text of a few pieces, and some labelled lines.
PlainPieces == {"Name:", SP, "Not Found", "ID Number", "784-1990"}
PlainTexts == UNION {[1..n -> PlainPieces] : n \in 0..MaxTextLen}
LabelledTexts ==
    {<<"Z1234567">>, <<"Dubai">>, <<"Passport", SP, "Z1234567", SP, "DUBAI">>,
     <<"Name:", SP, "JANE DOE">>, <<"Name:", "not found">>,
     <<"Name:", SP, "JANE DOE", SP, "ID Number", ":", SP, "784-1990">>,
     <<"Nationality:", SP, "Z1234567">>,
     <<"Profession:", SP, "Not Found", SP, "Nationality:", "JANE DOE", ",", "Abu Dhabi">>}

Completions == JsonTexts \cup CutTexts \cup PlainTexts \cup LabelledTexts

\* The completion of a model that reports the labelled fields of the text.
Reading(text) == SerializeDict(extract_using_regex(text), KeyOrder)

OcrReplies(bytes) ==
    IF services.replies = "any" THEN BlockSeqs ELSE {CardBlocks(bytes)}
LlmReplies(text) ==
    IF services.replies = "any" THEN Completions ELSE {Reading(text)}

-----------------------------------------------------------------------------
(* upload_to_s3 and extract_text_from_image *)

Requests == {1, 2}

Collaborators == {"upload", "detect", "split", "embed", "search", "llm", "delete"}

\* s3_file_path = f"emirates_ids/{os.path.basename(image_path)}"
s3_file_path(r) == <<"emirates_ids/", image[r].base>>

\* The except of upload_to_s3.
WrapUpload(m) == <<"Error uploading to S3">> \o m

\* The except of extract_text_from_image.
WrapExtract(m) == <<"Error processing Emirates ID">> \o m

\* " ".join(texts)
RECURSIVE JoinSpace(_)
JoinSpace(texts) ==
    IF texts = << >> THEN << >>
    ELSE IF Len(texts) = 1 THEN texts[1]
    ELSE texts[1] \o <<SP>> \o JoinSpace(Tail(texts))

\* Mutant: the text of every block, whatever its type.
LineTextsAllBlocks(bs) == [i \in 1..Len(bs) |-> bs[i].Text]

\* [block['Text'] for block in response['Blocks'] if block['BlockType'] == 'LINE']
RECURSIVE LineTexts(_)
LineTexts(bs) ==
    IF bs = << >> THEN << >>
    ELSE IF Head(bs).BlockType = "LINE"
         THEN <<Head(bs).Text>> \o LineTexts(Tail(bs))
         ELSE LineTexts(Tail(bs))

Called(r, cs) == calls' = [calls EXCEPT ![r] = [c \in Collaborators |->
                                IF c \in cs THEN @[c] + 1 ELSE @[c]]]

\* The request ends in the except of extract_text_from_image.
Raises(r, call, m) ==
    /\ pc' = [pc EXCEPT ![r] = "raised"]
    /\ raised_in' = [raised_in EXCEPT ![r] = call]
    /\ outcome' = [outcome EXCEPT ![r] = Raise(WrapExtract(m))]

\* upload_to_s3 returns.
Upload(r) ==
    /\ pc[r] = "start"
    /\ Called(r, {"upload"})
    /\ bucket' = Put(bucket, s3_file_path(r), image[r].bytes)
    /\ pc' = [pc EXCEPT ![r] = "uploaded"]
    /\ UNCHANGED <<image, blocks, extracted_text, result, extracted_info,
                   raised_in, outcome, services, ui_vars>>

\* s3_client.upload_file raises.
UploadRaises(r) ==
    /\ pc[r] = "start"
    /\ services.faulty
    /\ Called(r, {"upload"})
    /\ Raises(r, "upload", WrapUpload(CollaboratorError("upload")))
    /\ UNCHANGED <<image, bucket, blocks, extracted_text, result, extracted_info,
                   services, ui_vars>>

\* detect_document_text reads the object at s3_file_path and returns; the
\* LINE blocks are joined.
Detect(r) ==
    /\ pc[r] = "uploaded"
    /\ s3_file_path(r) \in DOMAIN bucket
    /\ Called(r, {"detect"})
    /\ \E bs \in OcrReplies(bucket[s3_file_path(r)]) :
         /\ blocks' = [blocks EXCEPT ![r] = bs]
         /\ extracted_text' = [extracted_text EXCEPT ![r] = JoinSpace(LineTexts(bs))]
    /\ pc' = [pc EXCEPT ![r] = "detected"]
    /\ UNCHANGED <<image, bucket, result, extracted_info, raised_in, outcome,
                   services, ui_vars>>

\* detect_document_text raises: always when the object is not in the bucket,
\* and for any other failure where the service can fail.
DetectRaises(r) ==
    /\ pc[r] = "uploaded"
    /\ services.faulty \/ s3_file_path(r) \notin DOMAIN bucket
    /\ Called(r, {"detect"})
    /\ Raises(r, "detect", CollaboratorError("detect"))
    /\ UNCHANGED <<image, bucket, blocks, extracted_text, result, extracted_info,
                   services, ui_vars>>

\* process_and_query returns or raises without a collaborator call raising.
Query(r) ==
    /\ pc[r] = "detected"
    /\ Called(r, {"split", "embed", "search", "llm"})
    /\ \E completion \in LlmReplies(extracted_text[r]) :
         LET o == process_and_query("none", completion)
         IN  /\ result' = [result EXCEPT ![r] = completion]
             /\ IF o.kind = "return"
                THEN /\ extracted_info' = [extracted_info EXCEPT ![r] = o.value]
                     /\ pc' = [pc EXCEPT ![r] = "queried"]
                     /\ UNCHANGED <<raised_in, outcome>>
                ELSE /\ Raises(r, "none", o.msg)
                     /\ UNCHANGED extracted_info
    /\ UNCHANGED <<image, bucket, blocks, extracted_text, services, ui_vars>>

\* A collaborator call of process_and_query raises: the calls before it
\* were made, those after it are not.
QueryRaises(r) ==
    /\ pc[r] = "detected"
    /\ services.faulty
    /\ \E n \in 1..Len(QueryCalls) :
         /\ Called(r, {QueryCalls[i] : i \in 1..n})
         /\ Raises(r, QueryCalls[n], process_and_query(QueryCalls[n], << >>).msg)
    /\ UNCHANGED <<image, bucket, blocks, extracted_text, result, extracted_info,
                   services, ui_vars>>

\* delete_object returns, and extract_text_from_image returns extracted_info.
Delete(r) ==
    /\ pc[r] = "queried"
    /\ Called(r, {"delete"})
    /\ bucket' = [k \in DOMAIN bucket \ {s3_file_path(r)} |-> bucket[k]]
    /\ pc' = [pc EXCEPT ![r] = "returned"]
    /\ outcome' = [outcome EXCEPT ![r] = Return(extracted_info[r])]
    /\ UNCHANGED <<image, blocks, extracted_text, result, extracted_info,
                   raised_in, services, ui_vars>>

\* delete_object raises.
DeleteRaises(r) ==
    /\ pc[r] = "queried"
    /\ services.faulty
    /\ Called(r, {"delete"})
    /\ Raises(r, "delete", CollaboratorError("delete"))
    /\ UNCHANGED <<image, bucket, blocks, extracted_text, result, extracted_info,
                   services, ui_vars>>

-----------------------------------------------------------------------------
(* app.py: one run of main() per event of the page *)

NoFile == [name |-> "<None>", bytes |-> "<None>"]
FileNames == {"id.jpg", "scan.png"}
Files == [name : FileNames, bytes : Contents]

\* A key of st.session_state that is not set.
Absent == "<absent>"
NoInfo == [has |-> FALSE, val |-> EmptyDict]
Info(d) == [has |-> TRUE, val |-> d]

\* What extract_text_from_image returns for an image when no call raises,
\* and what it raises when one does.
InfoOf(bytes) ==
    process_and_query("none", Reading(JoinSpace(LineTexts(CardBlocks(bytes))))).value
ExtractorOutcomes(bytes) ==
    {Return(InfoOf(bytes))}
        \cup {Raise(WrapExtract(WrapUpload(CollaboratorError("upload")))),
              Raise(WrapExtract(CollaboratorError("detect"))),
              Raise(WrapExtract(process_and_query("llm", << >>).msg))}

\* Lines 124-130: a file of another name resets the cached state.
OnUploadedFile(ss, file) ==
    IF ss.current_file_name # file.name
    THEN [ss EXCEPT !.current_file_name = file.name,
                    !.extracted_info = NoInfo,
                    !.file_content = Absent]
    ELSE ss

\* Lines 132-133: the bytes are read once.
ReadFile(ss, file) ==
    IF ss.file_content = Absent THEN [ss EXCEPT !.file_content = file.bytes] ELSE ss

\* Line 146: the result of a successful extraction is stored.
OnProcessed(ss, o) == [ss EXCEPT !.extracted_info = Info(o.value)]

\* Mutant: the except of the click handler drops the stored result.
OnProcessErrorClears(ss, o) == [ss EXCEPT !.extracted_info = NoInfo]

\* Lines 148-149: the except of the click handler.
OnProcessError(ss, o) == ss

\* Lines 151-153: the stored result is shown when it is set and not empty.
Displayed(ss) ==
    IF ss.extracted_info.has /\ ss.extracted_info.val # EmptyDict
    THEN ss.extracted_info
    ELSE NoInfo

NoError == << >>

\* One run of main() with a file in the uploader: clicked says whether
\* "Process the Card" was pressed, o is what the extractor then does.
RunScript(ss, file, clicked, o) ==
    LET s1 == ReadFile(OnUploadedFile(ss, file), file)
        s2 == IF ~clicked THEN s1
              ELSE IF o.kind = "return" THEN OnProcessed(s1, o)
              ELSE OnProcessError(s1, o)
    IN  [ss |-> s2,
         error |-> IF clicked /\ o.kind = "raise"
                   THEN <<"Error processing Emirates ID">> \o o.msg
                   ELSE NoError,
         results |-> Displayed(s2),
         sent |-> IF clicked THEN s1.file_content ELSE Absent]

Rerun(file, clicked, o) ==
    LET run == RunScript(session_state, file, clicked, o)
    IN  /\ session_state' = run.ss
        /\ page' = [error |-> run.error, results |-> run.results, clicked |-> clicked]
        /\ sent' = run.sent

\* The user puts a file in the uploader.
ChooseFile ==
    /\ \E f \in Files \ {uploaded_file} :
         /\ uploaded_file' = f
         /\ Rerun(f, FALSE, Pending)
    /\ UNCHANGED pipeline_vars

\* The user removes the file: the run shows the uploader alone.
RemoveFile ==
    /\ uploaded_file # NoFile
    /\ uploaded_file' = NoFile
    /\ page' = [error |-> NoError, results |-> NoInfo, clicked |-> FALSE]
    /\ sent' = Absent
    /\ UNCHANGED <<session_state, pipeline_vars>>

\* The user presses "Process the Card".
ClickProcess ==
    /\ uploaded_file # NoFile
    /\ \E o \in ExtractorOutcomes(
                  ReadFile(OnUploadedFile(session_state, uploaded_file),
                           uploaded_file).file_content) :
         Rerun(uploaded_file, TRUE, o)
    /\ UNCHANGED <<uploaded_file, pipeline_vars>>

-----------------------------------------------------------------------------
(* Specifications *)

BaseNames == {"tmp1.jpg", "tmp2.jpg"}
Images == [base : BaseNames, bytes : Contents]

NoCalls == [c \in Collaborators |-> 0]

InitUI ==
    /\ uploaded_file = NoFile
    /\ session_state = [current_file_name |-> "<None>",
                        file_content |-> Absent,
                        extracted_info |-> NoInfo]
    /\ page = [error |-> NoError, results |-> NoInfo, clicked |-> FALSE]
    /\ sent = Absent

InitRequests(started) ==
    /\ pc = [r \in Requests |-> IF r \in started THEN "start" ELSE "idle"]
    /\ bucket = EmptyDict
    /\ calls = [r \in Requests |-> NoCalls]
    /\ blocks = [r \in Requests |-> << >>]
    /\ extracted_text = [r \in Requests |-> << >>]
    /\ result = [r \in Requests |-> << >>]
    /\ extracted_info = [r \in Requests |-> EmptyDict]
    /\ raised_in = [r \in Requests |-> "none"]
    /\ outcome = [r \in Requests |-> Pending]

\* One request; the collaborators reply anything and may fail.
Init ==
    /\ InitRequests({1})
    /\ image = [r \in Requests |-> [base |-> "tmp1.jpg", bytes |-> "card A"]]
    /\ services = [replies |-> "any", faulty |-> TRUE]
    /\ InitUI

Next ==
    \E r \in Requests :
        \/ Upload(r)
        \/ UploadRaises(r)
        \/ Detect(r)
        \/ DetectRaises(r)
        \/ Query(r)
        \/ QueryRaises(r)
        \/ Delete(r)
        \/ DeleteRaises(r)

Spec == Init /\ [][Next]_vars

\* Two requests on the shared extractor, any two images; the collaborators
\* are functions of their input and fail only for a missing object.
InitConc ==
    /\ InitRequests(Requests)
    /\ image \in [Requests -> Images]
    /\ services = [replies |-> "fixed", faulty |-> FALSE]
    /\ InitUI

NextConc ==
    \E r \in Requests :
        \/ Upload(r)
        \/ Detect(r)
        \/ DetectRaises(r)
        \/ Query(r)
        \/ Delete(r)

SpecConc == InitConc /\ [][NextConc]_vars

\* The session of one user.
InitSession ==
    /\ InitRequests({})
    /\ image = [r \in Requests |-> [base |-> "tmp1.jpg", bytes |-> "card A"]]
    /\ services = [replies |-> "fixed", faulty |-> TRUE]
    /\ InitUI

NextSession == ChooseFile \/ RemoveFile \/ ClickProcess

SpecUI == InitSession /\ [][NextSession]_vars

-----------------------------------------------------------------------------
(* Properties *)

\* The request is over.
Done(r) == pc[r] \in {"returned", "raised"}

\* upload_to_s3 returned.
Uploaded(r) == calls[r]["upload"] = 1 /\ raised_in[r] # "upload"

\* detect_document_text returned.
Detected(r) == calls[r]["detect"] = 1 /\ raised_in[r] # "detect"

\* chain.run returned a completion.
Completed(r) ==
    calls[r]["llm"] = 1 /\ raised_in[r] \notin {"split", "embed", "search", "llm"}

\* The nine field keys (the keys display_results shows).
FieldKeys ==
    {Py("name"), Py("id_number"), Py("nationality"), Py("passport_no"),
     Py("profession"), Py("sponsor"), Py("place_of_issue"), Py("issue_date"),
     Py("expiry_date")}

\* The keys extract_using_regex sets.
FallbackKeys ==
    {Py("name"), Py("id_number"), Py("nationality"), Py("passport_no"),
     Py("profession"), Py("place_of_issue")}

\* str.lower() of a piece.
Lower(p) == IF p \in {"Not Found", "NOT FOUND"} THEN "not found" ELSE p

\* A value that is, after trimming, the empty string or "not found" in any
\* case.
IsSentinel(v) ==
    /\ v.type = "str"
    /\ LET s == Strip(v.val)
       IN  s = << >> \/ (Len(s) = 1 /\ Lower(s[1]) = "not found")

\* C1: whenever the upload succeeded, the request ends with the staged
\* object deleted exactly once and no longer in the bucket, whether text
\* detection and the language-model stage succeed or raise.
C1_StagedObjectDeletedOnce ==
    \A r \in Requests :
        Done(r) /\ Uploaded(r) =>
            calls[r]["delete"] = 1 /\ s3_file_path(r) \notin DOMAIN bucket

\* C2: the record returned holds no value that is, after trimming, empty or
\* "not found" in any case.
C2_NoEmptyOrNotFoundValue ==
    \A r \in Requests :
        outcome[r].kind = "return" =>
            \A k \in DOMAIN outcome[r].value : ~IsSentinel(outcome[r].value[k])

\* C3: every key of the record returned is one of the nine field keys.
C3_KeysAreFieldKeys ==
    \A r \in Requests :
        outcome[r].kind = "return" => DOMAIN outcome[r].value \subseteq FieldKeys

\* C4: when the completion is not valid JSON, process_and_query does not
\* raise; the record it returns has only keys of the regex fallback, each
\* with the value the fallback found for it in the completion, lacks a key
\* the fallback found only where its value is "Not Found", and is empty when
\* the fallback matches nothing.
C4_FallbackReturns ==
    \A r \in Requests :
        Completed(r) /\ ~json_loads(result[r]).ok =>
            LET found == extract_using_regex(result[r])
                info == extracted_info[r]
            IN  /\ pc[r] \in {"queried", "returned"} \/ raised_in[r] = "delete"
                /\ pc[r] = "returned" => outcome[r] = Return(info)
                /\ DOMAIN info \subseteq FallbackKeys \cap DOMAIN found
                /\ \A k \in DOMAIN info : info[k] = found[k]
                /\ \A k \in DOMAIN found \ DOMAIN info : found[k] = Str(Py("Not Found"))
                /\ found = EmptyDict => info = EmptyDict

\* A completion that is plain text with a labelled name was answered with
\* that name.
C4_Witness ==
    \E r \in Requests :
        /\ pc[r] = "returned"
        /\ ~json_loads(result[r]).ok
        /\ Py("name") \in DOMAIN outcome[r].value
        /\ outcome[r].value[Py("name")] = Str(Py("JANE DOE"))

\* A piece with a Latin letter; a piece with a character of the Arabic block.
HasLatin(line) ==
    \E i \in 1..Len(line) : line[i] \notin SpacePieces /\ LetterPrefix(line[i]) # ""
HasArabic(line) == \E i \in 1..Len(line) : line[i] \in ArabicPieces

\* The texts of the LINE blocks, in their order.
TextsOfLineBlocks(bs) ==
    LET sel == SelectSeq(bs, LAMBDA b : b.BlockType = "LINE")
    IN  [i \in 1..Len(sel) |-> sel[i].Text]

\* C5 as claimed: the text handed to process_and_query is made of the LINE
\* lines that hold a Latin letter and no Arabic character, in their order.
C5_OnlyLatinLines ==
    \A r \in Requests :
        Detected(r) =>
            extracted_text[r] =
                JoinSpace(SelectSeq(TextsOfLineBlocks(blocks[r]),
                                    LAMBDA l : HasLatin(l) /\ ~HasArabic(l)))

\* C5 as amended: the text handed to process_and_query is made of the texts
\* of all the LINE blocks, joined by a space in their order, lines with
\* Arabic characters included; no other block contributes.
C5_AllLineBlocksJoined ==
    \A r \in Requests :
        Detected(r) => extracted_text[r] = JoinSpace(TextsOfLineBlocks(blocks[r]))

\* A response with a line in Arabic and a block that is no line: the Arabic
\* line is in the text, the other block is not.
C5_Witness ==
    \E r \in Requests :
        /\ pc[r] = "detected"
        /\ \E i, j \in 1..Len(blocks[r]) :
             /\ blocks[r][i].BlockType = "LINE" /\ HasArabic(blocks[r][i].Text)
             /\ blocks[r][j].BlockType # "LINE"
        /\ HasArabic(extracted_text[r])
        /\ \A i \in 1..Len(extracted_text[r]) : extracted_text[r][i] # "JANE DOE"

\* The collaborator calls of a request, in the order the code makes them.
CallOrder == <<"upload", "detect", "split", "embed", "search", "llm", "delete">>
Position(c) == CHOOSE i \in 1..Len(CallOrder) : CallOrder[i] = c

\* The stage a call belongs to, and the stage the text that wraps an error
\* names.
StageOf(c) ==
    CASE c = "upload" -> "upload"
      [] c = "detect" -> "text detection"
      [] c \in {"split", "embed", "search", "llm"} -> "semantic extraction"
      [] OTHER -> "cleanup"
StageNamed(m) ==
    LET parts == {m[i] : i \in 1..Len(m)}
    IN  CASE "Error uploading to S3" \in parts -> "upload"
          [] "Error in LLM processing" \in parts -> "semantic extraction"
          [] OTHER -> "none"

\* C6: when an upload, text-detection, index or completion call raises, no
\* call is made twice, no later call is made, and the request raises an
\* error whose wrapping text names the stage that failed.
C6_FailureStopsAndNamesStage ==
    \A r \in Requests :
        raised_in[r] \in {"upload", "detect", "split", "embed", "search", "llm"} =>
            /\ \A c \in Collaborators : calls[r][c] <= 1
            /\ \A c \in Collaborators :
                 Position(c) > Position(raised_in[r]) => calls[r][c] = 0
            /\ outcome[r].kind = "raise"
            /\ StageNamed(outcome[r].msg) = StageOf(raised_in[r])

\* C7: a request ends as it would alone, returning the fields of its own
\* image, whatever the other request does.
C7_RequestsIndependent ==
    \A r \in Requests :
        Done(r) => outcome[r] = Return(InfoOf(image[r].bytes))

\* C8: a run of "Process the Card" that ends in an error shows the error,
\* leaves the stored extracted_info as it was and shows it as before; and
\* extracted_info is set only by a run whose extraction succeeded.
C8_ErrorKeepsResult ==
    [][/\ page'.clicked /\ page'.error # NoError =>
            /\ session_state'.extracted_info = session_state.extracted_info
            /\ page'.results =
                 IF session_state.extracted_info.has
                    /\ session_state.extracted_info.val # EmptyDict
                 THEN session_state.extracted_info
                 ELSE NoInfo
       /\ session_state'.extracted_info.has
            /\ session_state'.extracted_info # session_state.extracted_info =>
                page'.clicked /\ page'.error = NoError]_vars

\* An error is shown together with the result of an earlier extraction.
C8_Witness == page.clicked /\ page.error # NoError /\ page.results.has

\* C9: process_and_query raises only when one of its collaborator calls
\* raised.
C9_RaisesOnlyOnCollaboratorFailure ==
    \A r \in Requests : pc[r] = "raised" => raised_in[r] # "none"

\* C10: the bytes handed to the extractor are those of the file in the
\* uploader, and the result shown is that of the file in the uploader.
C10_CurrentFileOnly ==
    /\ sent # Absent => sent = uploaded_file.bytes
    /\ page.results.has => page.results.val = InfoOf(uploaded_file.bytes)

=============================================================================
